---- MODULE Spec2Model ----
(***************************************************************************)
(* A model of scripts/check_strings.py: one invocation of the tool is the  *)
(* sequence extractStrings, checkQuotes, checkSpelling, printOutput run by *)
(* CheckStrings.__init__; the JSON files under exceptions/ and errors/     *)
(* persist from one invocation to the next.                                *)
(*                                                                         *)
(* A message is a sequence of lexical items (words, punctuation, markup    *)
(* tags, placeables); the tokenizer and the spell checker are external,    *)
(* so the dictionary is an input: the set of strings hunspell accepts.     *)
(***************************************************************************)
EXTENDS Integers, Sequences, FiniteSets, TLC

VARIABLES
    repo,              \* id -> message, what the parsers find in the repository
    dict,              \* the strings self.spellchecker.spell() accepts
    raises,            \* ids whose placeable substitution raises
    present,           \* the files under exceptions/ that exist
    excQuotes,         \* content of exceptions/quotes.json
    excSpelling,       \* content of exceptions/spelling.json
    exclusions,        \* content of exceptions/spelling_exclusions.json
    errQuotes,         \* content of errors/quotes.json
    errSpelling,       \* content of errors/spelling.json
    written,           \* the files this invocation has written so far
    strings,           \* self.strings
    quote_errors,      \* self.quote_errors
    spelling_errors,   \* self.spelling_errors
    misspelled_words,  \* the frequency table of checkSpelling
    pc,                \* where __init__ is
    exitCode,          \* the exit code of the process, -1 while it runs
    run,               \* number of the current invocation
    log                \* one record per completed checkSpelling

vars == <<repo, dict, raises, present, excQuotes, excSpelling, exclusions,
          errQuotes, errSpelling, written, strings, quote_errors,
          spelling_errors, misspelled_words, pc, exitCode, run, log>>

inputs == <<repo, dict, raises, present, exclusions>>

(***************************************************************************)
(* Bounds                                                                  *)
(***************************************************************************)
MaxRuns == 2
MaxTokens == 3

(***************************************************************************)
(* Generic helpers                                                         *)
(***************************************************************************)
Range(s) == {s[i] : i \in 1..Len(s)}

Empty == [x \in {} |-> <<>>]

RECURSIVE Concat(_)
Concat(ss) == IF ss = <<>> THEN <<>> ELSE Head(ss) \o Concat(Tail(ss))

RECURSIVE SumLen(_, _)
SumLen(f, S) ==
    IF S = {} THEN 0
    ELSE LET x == CHOOSE y \in S : TRUE IN Len(f[x]) + SumLen(f, S \ {x})

Count(s, t) == Cardinality({i \in 1..Len(s) : s[i] = t})

RECURSIVE SumCount(_, _, _)
SumCount(f, S, t) ==
    IF S = {} THEN 0
    ELSE LET x == CHOOSE y \in S : TRUE IN Count(f[x], t) + SumCount(f, S \ {x}, t)

SeqsUpTo(S, n) == UNION {[1..k -> S] : k \in 0..n}

(***************************************************************************)
(* String identifiers: "<relative file path>:<entry path>[.<attribute>]"   *)
(***************************************************************************)
IdA == "browser/a.ftl:title"
IdB == "devtools/b.properties:label"
IdS == "browser/a.ftl:title.style"

\* The ids in the order extractStrings inserts them (sorted file list,
\* entry before its attributes).
IdOrder == <<IdA, IdS, IdB>>
AllIds == Range(IdOrder)

\* message_id.split(":")[0]
FilePart(message_id) ==
    CASE message_id = IdA -> "browser/a.ftl"
      [] message_id = IdS -> "browser/a.ftl"
      [] message_id = IdB -> "devtools/b.properties"

\* os.path.splitext(...)[1]
Extension(message_id) ==
    CASE FilePart(message_id) = "browser/a.ftl" -> ".ftl"
      [] FilePart(message_id) = "devtools/b.properties" -> ".properties"

\* str.startswith(prefix) on the file names of the model
StartsWith(file, prefix) ==
    \/ prefix = file
    \/ prefix = "browser/" /\ file = "browser/a.ftl"
    \/ prefix = "devtools/" /\ file = "devtools/b.properties"

\* message_id.endswith(".style")
EndsWithStyle(message_id) == message_id = IdS

(***************************************************************************)
(* Lexical items and the text operations on them                           *)
(***************************************************************************)
\* the typographic apostrophe U+2019, written in ASCII
Apostrophe == "&rsquo;"
UrlPlaceable == "{ $url }"
PrintfPlaceable == "%S"
LinkTag == "<a href=\"u\">"
StraightQuote == "'"
EmptyLiteral == "{ \"\" }"

\* string.punctuation, as far as the items of the model go
punctuation == {".", ",", "'", "{", "}", "$", "%"}

\* nltk.corpus.stopwords.words("italian"), as far as the items go
stop_words == {"per", "su"}

\* str.upper()
Upper(token) ==
    CASE token = "Usa" -> "USA"
      [] token = "Common" -> "COMMON"
      [] token = "Voice" -> "VOICE"
      [] token = "cos" -> "COS"
      [] token = "altro" -> "ALTRO"
      [] token = "per" -> "PER"
      [] token = "Per" -> "PER"
      [] token = "Firefoxx" -> "FIREFOXX"
      [] token = "Nightlyy" -> "NIGHTLYY"
      [] token = "url" -> "URL"
      [] token = "example.com" -> "EXAMPLE.COM"
      [] token = "Ctrl+K" -> "CTRL+K"
      [] OTHER -> token

\* str.lower()
Lower(token) ==
    CASE token = "Usa" -> "usa"
      [] token = "Common" -> "common"
      [] token = "Voice" -> "voice"
      [] token = "HTML" -> "html"
      [] token = "Per" -> "per"
      [] token = "Firefoxx" -> "firefoxx"
      [] token = "Nightlyy" -> "nightlyy"
      [] token = "Ctrl+K" -> "ctrl+k"
      [] token = "S" -> "s"
      [] OTHER -> token

\* k in token, for the substrings excludeToken looks for
Contains(token, k) ==
    \/ k = "example.com" /\ token = "example.com"
    \/ k = "Ctrl+" /\ token = "Ctrl+K"

\* MLStripper: only the text between tags is kept
strip_tags(message) == SelectSeq(message, LAMBDA item : item # LinkTag)

\* the items the patterns of placeables[extension] match
PlaceableItems(extension) ==
    CASE extension = ".ftl" -> {UrlPlaceable}
      [] extension = ".properties" -> {PrintfPlaceable}
      [] OTHER -> {}

\* nltk.word_tokenize on one item
TokensOf(item) ==
    CASE item = UrlPlaceable -> <<"{", "$", "url", "}">>
      [] item = PrintfPlaceable -> <<"%", "S">>
      [] OTHER -> <<item>>

word_tokenize(cleaned_message) ==
    Concat([i \in 1..Len(cleaned_message) |-> TokensOf(cleaned_message[i])])

\* straight_quotes.findall(text) is not empty
HasStraightQuotes(message) ==
    \E i \in 1..Len(message) : message[i] \in {StraightQuote, LinkTag, EmptyLiteral}

\* the Fluent syntax checkQuotes removes because it needs double quotes
ftl_functions(cleaned_msg) == SelectSeq(cleaned_msg, LAMBDA item : item # EmptyLiteral)

(***************************************************************************)
(* checkQuotes                                                             *)
(***************************************************************************)
\* the keys of self.strings in insertion order
OrderedIds(strs) == SelectSeq(IdOrder, LAMBDA id : id \in DOMAIN strs)

\* matched_exceptions after the loop
MatchedExceptions(strs, exceptions) ==
    SelectSeq(OrderedIds(strs), LAMBDA id : id \in Range(exceptions))

\* all_errors after the loop
QuoteErrors(strs, exceptions) ==
    SelectSeq(OrderedIds(strs), LAMBDA id :
        /\ id \notin Range(exceptions)
        /\ strs[id] # <<>>
        /\ HasStraightQuotes(strs[id])
        /\ HasStraightQuotes(ftl_functions(strip_tags(strs[id]))))

(***************************************************************************)
(* checkSpelling: the pass over one string                                 *)
(***************************************************************************)
\* self.spellchecker.spell(word)
spell(d, word) == word \in d

excludeToken(token) ==
    \/ token = Upper(token)
    \/ \E k \in {"example.com", "mozilla.org"} : Contains(token, k)
    \/ \E k \in {"Alt+", "Cmd+", "Ctrl+"} : Contains(token, k)

\* the token is one of the stored exceptions of its string
PreExcused(message_id, token, exceptions) ==
    /\ message_id \in DOMAIN exceptions
    /\ token \in Range(exceptions[message_id])

\* tokens[i], tokens[i + 1] and tokens[i + 2] joined spell a word
ElisionPasses(d, tokens, i) ==
    /\ i + 2 <= Len(tokens)
    /\ tokens[i + 1] = Apostrophe
    /\ spell(d, tokens[i] \o tokens[i + 1] \o tokens[i + 2])

\* the brand of two words that starts at tokens[i]
ForwardPasses(d, tokens, i) ==
    /\ i + 1 <= Len(tokens)
    /\ spell(d, tokens[i] \o " " \o tokens[i + 1])

\* A plausible slip: the slice tokens[i - 1 : i] holds one token only.
BackwardPassesShortSlice(d, tokens, i) ==
    /\ i >= 2
    /\ spell(d, tokens[i - 1])

\* the brand of two words that ends at tokens[i]
BackwardPasses(d, tokens, i) ==
    /\ i >= 2
    /\ spell(d, tokens[i - 1] \o " " \o tokens[i])

\* What one iteration of the loop over the tokens does with tokens[i]:
\* "ignored" (a stored exception), "error" (appended to errors) or "skip".
TokenVerdict(d, message_id, exceptions, tokens, i) ==
    IF PreExcused(message_id, tokens[i], exceptions) THEN "ignored"
    ELSE IF tokens[i] \in punctuation THEN "skip"
    ELSE IF Lower(tokens[i]) \in stop_words THEN "skip"
    ELSE IF spell(d, tokens[i]) THEN "skip"
    ELSE IF excludeToken(tokens[i]) THEN "skip"
    ELSE IF ElisionPasses(d, tokens, i) THEN "skip"
    ELSE IF ForwardPasses(d, tokens, i) THEN "skip"
    ELSE IF BackwardPasses(d, tokens, i) THEN "skip"
    ELSE "error"

\* errors after the loop over the tokens
RECURSIVE ErrorsFrom(_, _, _, _, _)
ErrorsFrom(d, message_id, exceptions, tokens, i) ==
    IF i > Len(tokens) THEN <<>>
    ELSE (IF TokenVerdict(d, message_id, exceptions, tokens, i) = "error"
          THEN <<tokens[i]>> ELSE <<>>)
         \o ErrorsFrom(d, message_id, exceptions, tokens, i + 1)

\* The string leaves the loop body before it is cleaned and tokenized.
Skipped(message_id, message, excl) ==
    \/ \E prefix \in excl.excluded_files : StartsWith(FilePart(message_id), prefix)
    \/ message_id \in excl.excluded_strings
    \/ Extension(message_id) = ".ftl" /\ EndsWithStyle(message_id)
    \/ message = <<>>
    \/ message = <<EmptyLiteral>>

\* cleaned_message: tags stripped, then the placeables of the format
\* replaced; when the substitution raises, the except branch prints and
\* the loop body goes on with the message as it was before the try.
Cleaned(message_id, message, raising) ==
    LET stripped == strip_tags(message) IN
    IF message_id \in raising THEN stripped
    ELSE SelectSeq(stripped,
                   LAMBDA item : item \notin PlaceableItems(Extension(message_id)))

Tokens(message_id, message, raising) ==
    word_tokenize(Cleaned(message_id, message, raising))

\* errors of one string that reaches the tokenizer
StringErrors(d, message_id, message, exceptions, raising) ==
    ErrorsFrom(d, message_id, exceptions, Tokens(message_id, message, raising), 1)

(***************************************************************************)
(* checkSpelling: the results of the loop over self.strings                *)
(***************************************************************************)
\* all_errors
AllErrors(d, strs, exceptions, excl, raising) ==
    LET checked == {id \in DOMAIN strs : ~Skipped(id, strs[id], excl)}
        failing == {id \in checked :
                       StringErrors(d, id, strs[id], exceptions, raising) # <<>>}
    IN [id \in failing |-> StringErrors(d, id, strs[id], exceptions, raising)]

\* ignored_strings (only membership is ever asked of the list)
IgnoredStrings(d, strs, exceptions, excl, raising) ==
    {id \in DOMAIN strs :
        /\ ~\E prefix \in excl.excluded_files : StartsWith(FilePart(id), prefix)
        /\ \/ id \in excl.excluded_strings
           \/ /\ ~Skipped(id, strs[id], excl)
              /\ LET tokens == Tokens(id, strs[id], raising) IN
                 \E i \in 1..Len(tokens) :
                     TokenVerdict(d, id, exceptions, tokens, i) = "ignored"}

\* misspelled_words: occurrences of each reported token over all strings
MisspelledWords(all_errors) ==
    LET reported == UNION {Range(all_errors[id]) : id \in DOMAIN all_errors}
    IN [t \in reported |-> SumCount(all_errors, DOMAIN all_errors, t)]

\* total_errors
TotalErrors(all_errors) == SumLen(all_errors, DOMAIN all_errors)

(***************************************************************************)
(* checkSpelling: the clean-up of the stored exceptions                    *)
(***************************************************************************)
\* One pass of the loop over list(exceptions.keys()): is the key kept?
Kept(message_id, ids, ignored_strings) ==
    /\ message_id \in ids
    /\ message_id \in ignored_strings

\* A plausible slip: the deletions are made in a copy of the dictionary.
ReconcileNoDelete(exceptions, ids, ignored_strings, all_errors) ==
    [id \in DOMAIN exceptions |->
        IF /\ Kept(id, ids, ignored_strings)
           /\ id \in DOMAIN all_errors
           /\ all_errors[id] # exceptions[id]
        THEN all_errors[id] ELSE exceptions[id]]

\* A plausible slip: the list of the string is never updated.
ReconcileNoUpdate(exceptions, ids, ignored_strings, all_errors) ==
    [id \in {k \in DOMAIN exceptions : Kept(k, ids, ignored_strings)} |->
        exceptions[id]]

\* A plausible slip: every string with errors is stored as an exception.
ReconcileAddsErrors(exceptions, ids, ignored_strings, all_errors) ==
    [id \in {k \in DOMAIN exceptions : Kept(k, ids, ignored_strings)}
               \cup DOMAIN all_errors |->
        IF id \in DOMAIN all_errors THEN all_errors[id] ELSE exceptions[id]]

\* exceptions as written back to exceptions/spelling.json
Reconcile(exceptions, ids, ignored_strings, all_errors) ==
    [id \in {k \in DOMAIN exceptions : Kept(k, ids, ignored_strings)} |->
        IF id \in DOMAIN all_errors /\ all_errors[id] # exceptions[id]
        THEN all_errors[id] ELSE exceptions[id]]

(***************************************************************************)
(* printOutput                                                             *)
(***************************************************************************)
\* A plausible slip: "and" for "or".
ExitStatusBoth(spelling, quotes) == IF spelling # 0 /\ quotes # <<>> THEN 1 ELSE 0

\* the exit code printOutput ends the process with
ExitStatus(spelling, quotes) == IF spelling # 0 \/ quotes # <<>> THEN 1 ELSE 0

(***************************************************************************)
(* The files and the steps of CheckStrings.__init__                        *)
(***************************************************************************)
QuotesExceptionsFile == "exceptions/quotes.json"
SpellingExceptionsFile == "exceptions/spelling.json"
SpellingExclusionsFile == "exceptions/spelling_exclusions.json"
QuotesErrorsFile == "errors/quotes.json"
SpellingErrorsFile == "errors/spelling.json"

ExceptionFiles ==
    {QuotesExceptionsFile, SpellingExceptionsFile, SpellingExclusionsFile}

\* self.extractStrings(): the strings of every file that parses
ExtractStrings ==
    /\ pc = "extractStrings"
    /\ strings' = repo
    /\ pc' = "checkQuotes"
    /\ UNCHANGED <<inputs, excQuotes, excSpelling, errQuotes, errSpelling,
                   written, quote_errors, spelling_errors, misspelled_words,
                   exitCode, run, log>>

\* self.checkQuotes()
CheckQuotes ==
    /\ pc = "checkQuotes"
    /\ QuotesExceptionsFile \in present
    /\ LET all_errors == QuoteErrors(strings, excQuotes)
           matched_exceptions == MatchedExceptions(strings, excQuotes)
       IN /\ errQuotes' = all_errors
          /\ excQuotes' = matched_exceptions
          /\ written' = written \cup {QuotesErrorsFile} \cup
                 (IF matched_exceptions # excQuotes
                  THEN {QuotesExceptionsFile} ELSE {})
          /\ quote_errors' = all_errors
    /\ pc' = "checkSpelling"
    /\ UNCHANGED <<inputs, excSpelling, errSpelling, strings, spelling_errors,
                   misspelled_words, exitCode, run, log>>

\* open() of exceptions/quotes.json raises: the traceback ends the process
CheckQuotesAbort ==
    /\ pc = "checkQuotes"
    /\ QuotesExceptionsFile \notin present
    /\ pc' = "aborted"
    /\ exitCode' = 1
    /\ UNCHANGED <<inputs, excQuotes, excSpelling, errQuotes, errSpelling,
                   written, strings, quote_errors, spelling_errors,
                   misspelled_words, run, log>>

\* self.checkSpelling()
CheckSpelling ==
    /\ pc = "checkSpelling"
    /\ {SpellingExceptionsFile, SpellingExclusionsFile} \subseteq present
    /\ LET all_errors == AllErrors(dict, strings, excSpelling, exclusions, raises)
           ignored_strings ==
               IgnoredStrings(dict, strings, excSpelling, exclusions, raises)
           exceptions ==
               Reconcile(excSpelling, DOMAIN strings, ignored_strings, all_errors)
       IN /\ errSpelling' = all_errors
          /\ excSpelling' = exceptions
          /\ misspelled_words' = MisspelledWords(all_errors)
          /\ spelling_errors' = TotalErrors(all_errors)
          /\ log' = Append(log, [before |-> excSpelling,
                                 ignored |-> ignored_strings,
                                 errors |-> all_errors,
                                 after |-> exceptions])
    /\ written' = written \cup {SpellingErrorsFile, SpellingExceptionsFile}
    /\ pc' = "printOutput"
    /\ UNCHANGED <<inputs, excQuotes, errQuotes, strings, quote_errors,
                   exitCode, run>>

\* open() of exceptions/spelling.json or of spelling_exclusions.json raises
CheckSpellingAbort ==
    /\ pc = "checkSpelling"
    /\ ~({SpellingExceptionsFile, SpellingExclusionsFile} \subseteq present)
    /\ pc' = "aborted"
    /\ exitCode' = 1
    /\ UNCHANGED <<inputs, excQuotes, excSpelling, errQuotes, errSpelling,
                   written, strings, quote_errors, spelling_errors,
                   misspelled_words, run, log>>

\* self.printOutput()
PrintOutput ==
    /\ pc = "printOutput"
    /\ exitCode' = ExitStatus(spelling_errors, quote_errors)
    /\ pc' = "done"
    /\ UNCHANGED <<inputs, excQuotes, excSpelling, errQuotes, errSpelling,
                   written, strings, quote_errors, spelling_errors,
                   misspelled_words, run, log>>

\* The tool is started again: a new process, the files as they were left.
NextRun ==
    /\ pc \in {"done", "aborted"}
    /\ run < MaxRuns
    /\ run' = run + 1
    /\ pc' = "extractStrings"
    /\ exitCode' = -1
    /\ strings' = Empty
    /\ quote_errors' = <<>>
    /\ spelling_errors' = 0
    /\ misspelled_words' = Empty
    /\ written' = {}
    /\ UNCHANGED <<inputs, excQuotes, excSpelling, errQuotes, errSpelling, log>>

Next ==
    \/ ExtractStrings
    \/ CheckQuotes
    \/ CheckQuotesAbort
    \/ CheckSpelling
    \/ CheckSpellingAbort
    \/ PrintOutput
    \/ NextRun

(***************************************************************************)
(* Initial states: the process has just been started                       *)
(***************************************************************************)
\* What every start has in common.
Started ==
    /\ strings = Empty
    /\ quote_errors = <<>>
    /\ spelling_errors = 0
    /\ misspelled_words = Empty
    /\ errQuotes = <<>>
    /\ errSpelling = Empty
    /\ written = {}
    /\ pc = "extractStrings"
    /\ exitCode = -1
    /\ run = 1
    /\ log = <<>>

\* the functions from a subset of S to T
Partial(S, T) == UNION {[D -> T] : D \in SUBSET S}

\* Messages of a repository with several strings.
MessagesA ==
    {<<"Firefoxx", "Nightlyy">>, <<"Usa", UrlPlaceable>>,
     <<"Usa", "Common", "Voice">>, <<"Usa">>}
MessagesB ==
    {<<"Nightlyy", ".", StraightQuote>>, <<LinkTag, "Usa", PrintfPlaceable>>,
     <<EmptyLiteral>>}
MessagesS == {<<"Firefoxx">>}

Repos ==
    {f \in Partial(AllIds, MessagesA \cup MessagesB \cup MessagesS) :
        /\ IdA \in DOMAIN f => f[IdA] \in MessagesA
        /\ IdB \in DOMAIN f => f[IdB] \in MessagesB
        /\ IdS \in DOMAIN f => f[IdS] \in MessagesS}

\* Contents of exceptions/spelling.json.
Stores ==
    {f \in Partial(AllIds, {<<"Firefoxx">>, <<"Nightlyy">>, <<"Usa">>}) :
        /\ IdB \in DOMAIN f => f[IdB] = <<"Nightlyy">>
        /\ IdS \in DOMAIN f => f[IdS] = <<"Firefoxx">>}

Dictionaries == {{"Usa"}, {"Usa", "Common Voice"}, {"Usa", "Firefoxx", "Nightlyy"}}

NoExclusions == [excluded_files |-> {}, excluded_strings |-> {}]

Exclusions ==
    {NoExclusions,
     [excluded_files |-> {"devtools/"}, excluded_strings |-> {}],
     [excluded_files |-> {}, excluded_strings |-> {IdA}]}

Init ==
    /\ Started
    /\ repo \in Repos
    /\ \/ /\ present = ExceptionFiles
          /\ dict \in Dictionaries
          /\ raises \in {{}, {IdA}}
          /\ exclusions \in Exclusions
          /\ excSpelling \in Stores
          /\ excQuotes \in {<<>>, <<IdB>>, <<IdB, IdA>>}
       \/ /\ present \in SUBSET ExceptionFiles
          /\ present # ExceptionFiles
          /\ dict = {"Usa"}
          /\ raises = {}
          /\ exclusions = NoExclusions
          /\ excSpelling = Empty
          /\ excQuotes = <<>>

Spec == Init /\ [][Next]_vars

(***************************************************************************)
(* Initial states for the pass over the tokens: one string, every sequence *)
(* of at most MaxTokens words, every dictionary over the candidates.       *)
(***************************************************************************)
Words == {"Usa", "Common", "Voice", "cos", Apostrophe, "altro", "HTML"}

DictionaryCandidates == {"Usa", "Common Voice", "cos" \o Apostrophe \o "altro"}

InitTokens ==
    /\ Started
    /\ raises = {}
    /\ exclusions = NoExclusions
    /\ excQuotes = <<>>
    /\ dict \in SUBSET DictionaryCandidates
    /\ \/ /\ present = ExceptionFiles
          /\ repo \in {[id \in {IdA} |-> m] : m \in SeqsUpTo(Words, MaxTokens)}
          /\ excSpelling \in {Empty, [id \in {IdA} |-> <<"Common">>]}
       \/ /\ present \in {ExceptionFiles \ {QuotesExceptionsFile},
                          ExceptionFiles \ {SpellingExclusionsFile}}
          /\ repo \in {[id \in {IdA} |-> m] : m \in SeqsUpTo(Words, 1)}
          /\ excSpelling = Empty

SpecTokens == InitTokens /\ [][Next]_vars

(***************************************************************************)
(* Properties                                                              *)
(***************************************************************************)
\* checkSpelling of the current invocation has written its files
SpellingDone == pc \in {"printOutput", "done"}

\* the record of the checkSpelling that ran last
LastRun == log[Len(log)]

\* the tokens checkSpelling loops over for a string it does not skip
TokensIn(id) == Tokens(id, strings[id], raises)

\* C1: reconciliation is idempotent: a run directly after another one, on
\* the same strings and dictionary, writes the exception store the run
\* before it wrote (stated for the runs in which no substitution raises).
C1_ReconcileIdempotent ==
    raises = {} =>
        \A k \in 2..Len(log) : log[k].after = log[k - 1].after

\* C2: the report is deterministic: a run directly after another one, on
\* the same strings and dictionary, writes the same spelling report
\* (stated for the runs in which no substitution raises).
C2_ReportDeterministic ==
    raises = {} =>
        \A k \in 2..Len(log) : log[k].errors = log[k - 1].errors

\* C3: exception self-healing: a stored entry of one token, for an existing
\* string that is not excluded, whose token still occurs in the string and
\* is now accepted by the dictionary, is gone from the store after the run
\* (stated for the runs in which no substitution raises).
C3_SelfHealing ==
    (SpellingDone /\ raises = {}) =>
        \A id \in DOMAIN LastRun.before \cap DOMAIN strings :
            ( /\ ~Skipped(id, strings[id], exclusions)
              /\ Len(LastRun.before[id]) = 1
              /\ LastRun.before[id][1] \in Range(TokensIn(id))
              /\ LastRun.before[id][1] \in dict )
            => id \notin DOMAIN excSpelling

\* the string has stored exceptions and a report that differs from them
LiveDiffers(id) ==
    /\ id \in DOMAIN LastRun.before
    /\ id \in DOMAIN strings
    /\ id \in DOMAIN errSpelling
    /\ errSpelling[id] # LastRun.before[id]

\* one of the tokens of the string is among its stored exceptions
SomeTokenStored(id) ==
    \E token \in Range(TokensIn(id)) : token \in Range(LastRun.before[id])

\* C4 as stated: every stored key of an existing string whose report
\* differs from its stored list is mapped to the report by the store
\* written back (stated for the runs in which no substitution raises).
C4_OverwriteAlways ==
    (SpellingDone /\ raises = {}) =>
        \A id \in AllIds :
            LiveDiffers(id) =>
                /\ id \in DOMAIN excSpelling
                /\ excSpelling[id] = errSpelling[id]

\* C4 as amended: such a key is mapped to the report when one of the
\* tokens of the string is among its stored exceptions, and is deleted
\* when none is.
C4_OverwriteWhenIgnored ==
    SpellingDone =>
        \A id \in AllIds :
            LiveDiffers(id) =>
                IF SomeTokenStored(id)
                THEN /\ id \in DOMAIN excSpelling
                     /\ excSpelling[id] = errSpelling[id]
                ELSE id \notin DOMAIN excSpelling

C4_Witness ==
    /\ pc = "done"
    /\ \E id \in AllIds :
          /\ LiveDiffers(id)
          /\ SomeTokenStored(id)
          /\ id \in DOMAIN excSpelling
          /\ excSpelling[id] = errSpelling[id]

\* C5: exception pruning: a key of the stored exceptions that is not a
\* string of the current extraction is absent from the store written back.
C5_Pruning ==
    SpellingDone =>
        \A id \in DOMAIN LastRun.before :
            id \notin DOMAIN strings => id \notin DOMAIN excSpelling

C5_Witness ==
    /\ pc = "done"
    /\ \E id \in DOMAIN LastRun.before : id \notin DOMAIN strings
    /\ \E id \in DOMAIN LastRun.before : id \in DOMAIN excSpelling

\* tokens[i] fails the dictionary alone and passes it joined by a space
\* with the token after it or with the token before it
PairExempt(tokens, i) ==
    /\ tokens[i] \notin dict
    /\ \/ i + 1 <= Len(tokens) /\ (tokens[i] \o " " \o tokens[i + 1]) \in dict
       \/ i - 1 >= 1 /\ (tokens[i - 1] \o " " \o tokens[i]) \in dict

\* what is reported for a string
Reported(id) == IF id \in DOMAIN errSpelling THEN errSpelling[id] ELSE <<>>

C7_NoPartialRun ==
    ( /\ pc \in {"aborted", "done"}
      /\ \/ SpellingExceptionsFile \notin present
         \/ SpellingExclusionsFile \notin present )
    => /\ exitCode > 0
       /\ written = {}

\* C8: a string whose placeable substitution raises is not a key of the
\* report.
C8_FailOpen ==
    SpellingDone =>
        \A id \in raises \cap DOMAIN strings : id \notin DOMAIN errSpelling

\* C9: a completed run ends with exit code 1 when the quote check or the
\* spelling check recorded an error, and with exit code 0 otherwise.
C9_ExitCode ==
    pc = "done" =>
        exitCode = (IF errQuotes # <<>> \/ DOMAIN errSpelling # {} THEN 1 ELSE 0)

C9_Witness ==
    /\ pc = "done"
    /\ exitCode = 1
    /\ errQuotes # <<>>
    /\ DOMAIN errSpelling = {}

\* C10: the exception store never gains keys: the keys written back are
\* keys it had before the run and strings of the current extraction.
C10_NoNewKeys ==
    SpellingDone =>
        DOMAIN excSpelling \subseteq (DOMAIN LastRun.before \cap DOMAIN strings)

C10_Witness ==
    /\ pc = "done"
    /\ \E id \in DOMAIN errSpelling :
          /\ id \notin DOMAIN LastRun.before
          /\ id \notin DOMAIN excSpelling
    /\ DOMAIN excSpelling # {}

====
